---- MODULE Spec2Model ----
(***************************************************************************)
(* Model of the temperature-analysis pipeline of analysis.py (load_data,   *)
(* add_rolling_stats, add_season_stats, mark_anomalies, prepare_features,  *)
(* current_season_mean_std, is_temp_normal) and of its caller app.main.    *)
(*                                                                         *)
(* Numbers.  Temperatures are integers.  A float that is a mean is the     *)
(* exact rational num/den (den > 0); a float that is a standard deviation  *)
(* is the square root of the rational num/den (its variance).  den = 0 is  *)
(* NaN.  Comparisons that involve a standard deviation are decided on the  *)
(* squares, so no rounding enters the model.                               *)
(***************************************************************************)
EXTENDS Integers, Sequences, FiniteSets, TLC

VARIABLES pc, csv, df, cols, dtype, err, input, args, query, net, weather

vars == <<pc, csv, df, cols, dtype, err, input, args, query, net, weather>>

-----------------------------------------------------------------------------
(* Bounds of the model *)

MaxRows == 3
MaxDay == 3
MaxTemp == 1
MaxWindow == 3
MaxZ == 2
MaxLoadRows == 2
MaxStat == 2

(* Program constants *)

DefaultWindow == 30
DefaultZ == 2

-----------------------------------------------------------------------------
(* Floats *)

NaN == [num |-> 0, den |-> 0]

IsNaN(x) == x.den = 0

Abs(i) == IF i < 0 THEN 0 - i ELSE i

RECURSIVE GCD(_, _)
GCD(a, b) == IF b = 0 THEN a ELSE GCD(b, a % b)

\* the rational n/d (d > 0) in lowest terms
Rat(n, d) ==
    LET g == GCD(Abs(n), d)
    IN  [num |-> n \div g, den |-> d \div g]

RECURSIVE Sum(_)
Sum(s) == IF s = <<>> THEN 0 ELSE Head(s) + Sum(Tail(s))

RECURSIVE SumSq(_)
SumSq(s) == IF s = <<>> THEN 0 ELSE Head(s) * Head(s) + SumSq(Tail(s))

\* Series.mean(): NaN on an empty series
Mean(s) == IF Len(s) = 0 THEN NaN ELSE Rat(Sum(s), Len(s))

\* Series.std() (ddof = 1): NaN on fewer than two values; the value is the
\* square root of the rational returned here
Std(s) ==
    IF Len(s) < 2 THEN NaN
    ELSE Rat(Len(s) * SumSq(s) - Sum(s) * Sum(s), Len(s) * (Len(s) - 1))

\* temp > mean + z * std ; False when mean or std is NaN
GtUpper(temp, mean, std, z) ==
    IF IsNaN(mean) \/ IsNaN(std) THEN FALSE
    ELSE LET a == temp * mean.den - mean.num
         IN  a > 0 /\ a * a * std.den > z * z * std.num * mean.den * mean.den

\* temp < mean - z * std ; False when mean or std is NaN
LtLower(temp, mean, std, z) ==
    IF IsNaN(mean) \/ IsNaN(std) THEN FALSE
    ELSE LET b == mean.num - temp * mean.den
         IN  b > 0 /\ b * b * std.den > z * z * std.num * mean.den * mean.den

\* (mean - z * std) <= temp ; False when mean or std is NaN
LowerLe(temp, mean, std, z) ==
    IF IsNaN(mean) \/ IsNaN(std) THEN FALSE
    ELSE LET b == mean.num - temp * mean.den
         IN  b <= 0 \/ b * b * std.den <= z * z * std.num * mean.den * mean.den

\* temp <= (mean + z * std) ; False when mean or std is NaN
LeUpper(temp, mean, std, z) ==
    IF IsNaN(mean) \/ IsNaN(std) THEN FALSE
    ELSE LET a == temp * mean.den - mean.num
         IN  a <= 0 \/ a * a * std.den <= z * z * std.num * mean.den * mean.den

-----------------------------------------------------------------------------
(* Calendar: a timestamp is the ordinal of a day in a non-leap year *)

DaysInMonth == <<31, 28, 31, 30, 31, 30, 31, 31, 30, 31, 30, 31>>

RECURSIVE MonthStart(_)
MonthStart(m) == IF m = 1 THEN 0 ELSE MonthStart(m - 1) + DaysInMonth[m - 1]

\* ts.month
Month(ts) == CHOOSE m \in 1..12 : MonthStart(m) < ts /\ ts <= MonthStart(m) + DaysInMonth[m]

MONTH_TO_SEASON ==
    [m \in {12, 1, 2, 3, 4, 5, 6, 7, 8, 9, 10, 11} |->
        CASE m \in {12, 1, 2} -> "winter"
          [] m \in {3, 4, 5} -> "spring"
          [] m \in {6, 7, 8} -> "summer"
          [] m \in {9, 10, 11} -> "autumn"]

Seasons == {"winter", "spring", "summer", "autumn"}

season_from_timestamp(ts) == MONTH_TO_SEASON[Month(ts)]

-----------------------------------------------------------------------------
(* Frames *)

Cities == {"A", "B"}

\* the order of the city strings
CityOrd(c) == IF c = "A" THEN 1 ELSE IF c = "B" THEN 2 ELSE 3

\* a missing season value (an empty cell of the season column)
NoSeason == "nan"

RequiredCols == {"city", "timestamp", "temperature"}

\* a row of the frame; a column that the frame does not have holds its
\* placeholder (NaN / FALSE / "") and is not named in cols
Row(city, ts, temp, season) ==
    [city |-> city, timestamp |-> ts, temperature |-> temp, season |-> season,
     rolling_mean |-> NaN, rolling_std |-> NaN,
     season_mean |-> NaN, season_std |-> NaN,
     is_anomaly_season |-> FALSE, is_anomaly_rolling |-> FALSE]

RECURSIVE Pick(_, _, _)
\* df[mask]: the elements of s, in order, whose index is in idx (from index i on)
Pick(s, idx, i) ==
    IF i > Len(s) THEN <<>>
    ELSE (IF i \in idx THEN <<s[i]>> ELSE <<>>) \o Pick(s, idx, i + 1)

Column(s, f) == [i \in 1..Len(s) |-> s[i][f]]

RECURSIVE Unique(_)
\* Series.unique(): the distinct values in order of first appearance
Unique(s) ==
    IF s = <<>> THEN <<>>
    ELSE LET u == Unique(SubSeq(s, 1, Len(s) - 1))
         IN  IF \E i \in 1..Len(u) : u[i] = s[Len(s)] THEN u ELSE Append(u, s[Len(s)])

RECURSIVE Concat(_)
Concat(ss) == IF ss = <<>> THEN <<>> ELSE Head(ss) \o Concat(Tail(ss))

-----------------------------------------------------------------------------
(* load_data *)

\* a timestamp cell of the source: the text of a date (month, day of the
\* month), or text that is no date
BadDate == [m |-> 0, d |-> 0]

DateCell(m, d) == [m |-> m, d |-> d]

\* a temperature cell of the source: a number, or text that is no number
NumCell(v) == [numeric |-> TRUE, val |-> v]

BadNum == [numeric |-> FALSE, val |-> 0]

\* pd.to_datetime on one cell
to_datetime(cell) == MonthStart(cell.m) + cell.d

\* load_data(path): the frame, or the exception that leaves the function
load_data(c) ==
    IF "timestamp" \notin c.cols
    THEN [status |-> "KeyError", rows |-> <<>>, cols |-> {}, dtype |-> "none"]
    ELSE IF \E i \in 1..Len(c.rows) : c.rows[i].timestamp = BadDate
    THEN [status |-> "ValueError", rows |-> <<>>, cols |-> {}, dtype |-> "none"]
    ELSE [status |-> "ok",
          rows |-> [i \in 1..Len(c.rows) |->
                      LET r == c.rows[i]
                          ts == to_datetime(r.timestamp)
                      IN  Row(IF "city" \in c.cols THEN r.city ELSE "",
                              ts,
                              IF "temperature" \in c.cols THEN r.temperature.val ELSE 0,
                              IF "season" \notin c.cols
                              THEN season_from_timestamp(ts)
                              ELSE r.season)],
          cols |-> c.cols \cup {"season"},
          dtype |-> IF "temperature" \notin c.cols THEN "none"
                    ELSE IF \A i \in 1..Len(c.rows) : c.rows[i].temperature.numeric
                         THEN "float64" ELSE "object"]

-----------------------------------------------------------------------------
(* add_rolling_stats *)

\* a sort on the timestamp alone
KeyLess_timestampOnly(a, b) == a.timestamp < b.timestamp

\* (city, timestamp) of a before (city, timestamp) of b
KeyLess(a, b) ==
    \/ CityOrd(a.city) < CityOrd(b.city)
    \/ a.city = b.city /\ a.timestamp < b.timestamp

RECURSIVE InsertSorted(_, _)
\* r put into the sorted s behind every row that is not after it
InsertSorted(s, r) ==
    IF s = <<>> THEN <<r>>
    ELSE IF KeyLess(r, s[Len(s)])
         THEN Append(InsertSorted(SubSeq(s, 1, Len(s) - 1), r), s[Len(s)])
         ELSE Append(s, r)

RECURSIVE SortValues(_)
\* df.sort_values(["city", "timestamp"]).reset_index(drop=True): stable
SortValues(s) ==
    IF s = <<>> THEN <<>>
    ELSE InsertSorted(SortValues(SubSeq(s, 1, Len(s) - 1)), s[Len(s)])

\* df[df["city"] == city].copy().reset_index(drop=True)
CityFrame(s, city) == Pick(s, {i \in 1..Len(s) : s[i].city = city}, 1)

\* the observations of the window of row i of .rolling(window=w, on="timestamp"):
\* w is an integer, so the window is the last w rows up to row i
Window(temps, i, w) == SubSeq(temps, IF i - w + 1 < 1 THEN 1 ELSE i - w + 1, i)

\* min_periods of .rolling(window=w): an integer window defaults it to w
MinPeriods(w) == w

\* .rolling(window=w, on="timestamp")["temperature"].mean().values
RollingMean(temps, w) ==
    [i \in 1..Len(temps) |->
        IF Len(Window(temps, i, w)) < MinPeriods(w) THEN NaN
        ELSE Mean(Window(temps, i, w))]

\* .rolling(window=w, on="timestamp")["temperature"].std().values
RollingStd(temps, w) ==
    [i \in 1..Len(temps) |->
        IF Len(Window(temps, i, w)) < MinPeriods(w) THEN NaN
        ELSE Std(Window(temps, i, w))]

\* one rolling pass over the whole sorted frame, cities not told apart
CityFrames_singlePass(sorted) == <<sorted>>

\* the frames the loop over df["city"].unique() computes on, in loop order
CityFrames(sorted) ==
    LET cs == Unique(Column(sorted, "city"))
    IN  [k \in 1..Len(cs) |-> CityFrame(sorted, cs[k])]

add_rolling_stats(d, window_days) ==
    LET sorted == SortValues(d)
        frames == CityFrames(sorted)
        rolling_mean_list ==
            Concat([k \in 1..Len(frames) |->
                      RollingMean(Column(frames[k], "temperature"), window_days)])
        rolling_std_list ==
            Concat([k \in 1..Len(frames) |->
                      RollingStd(Column(frames[k], "temperature"), window_days)])
    IN  [i \in 1..Len(sorted) |->
            [sorted[i] EXCEPT !.rolling_mean = rolling_mean_list[i],
                              !.rolling_std = rolling_std_list[i]]]

-----------------------------------------------------------------------------
(* add_season_stats *)

\* the orders of the strings of the two key columns
CityList == <<"A", "B">>

SeasonList == <<"autumn", "spring", "summer", "winter">>

\* every (city, season) key in sorted order
KeyList ==
    Concat([c \in 1..Len(CityList) |->
              [s \in 1..Len(SeasonList) |-> [city |-> CityList[c], season |-> SeasonList[s]]]])

\* df.groupby(["city", "season"])["temperature"].agg(season_mean="mean",
\* season_std="std").reset_index(): one row per key that has rows; a row
\* whose season is missing is in no group
SeasonStats(d) ==
    LET present == {k \in 1..Len(KeyList) :
                      \E i \in 1..Len(d) :
                          d[i].city = KeyList[k].city /\ d[i].season = KeyList[k].season}
        keys == Pick(KeyList, present, 1)
    IN  [k \in 1..Len(keys) |->
            LET temps == Column(Pick(d, {i \in 1..Len(d) :
                                            /\ d[i].city = keys[k].city
                                            /\ d[i].season = keys[k].season}, 1),
                                "temperature")
            IN  [city |-> keys[k].city, season |-> keys[k].season,
                 season_mean |-> Mean(temps), season_std |-> Std(temps)]]

\* left.merge(right, on=["city", "season"], how="left"): per left row, in the
\* order of left, one row per matching right row, or one row of NaN when
\* none matches
MergeLeft(left, right) ==
    Concat([i \in 1..Len(left) |->
              LET m == Pick(right, {j \in 1..Len(right) :
                                      /\ right[j].city = left[i].city
                                      /\ right[j].season = left[i].season}, 1)
              IN  IF m = <<>>
                  THEN <<[left[i] EXCEPT !.season_mean = NaN, !.season_std = NaN]>>
                  ELSE [j \in 1..Len(m) |->
                          [left[i] EXCEPT !.season_mean = m[j].season_mean,
                                          !.season_std = m[j].season_std]]])

add_season_stats(d) == MergeLeft(d, SeasonStats(d))

-----------------------------------------------------------------------------
(* mark_anomalies *)

\* the flag as the negation of the band test, which NaN fails
OutOfBand_notInBand(temp, mean, std, z) ==
    ~(LowerLe(temp, mean, std, z) /\ LeUpper(temp, mean, std, z))

\* (temperature > mean + z*std) | (temperature < mean - z*std)
OutOfBand(temp, mean, std, z) == GtUpper(temp, mean, std, z) \/ LtLower(temp, mean, std, z)

\* the rolling flag computed whatever use_rolling says
mark_anomalies_alwaysRolling(d, z_threshold, use_rolling) ==
    [i \in 1..Len(d) |->
        [d[i] EXCEPT
            !.is_anomaly_season =
                OutOfBand(d[i].temperature, d[i].season_mean, d[i].season_std, z_threshold),
            !.is_anomaly_rolling =
                OutOfBand(d[i].temperature, d[i].rolling_mean, d[i].rolling_std,
                          z_threshold)]]

mark_anomalies(d, z_threshold, use_rolling) ==
    [i \in 1..Len(d) |->
        [d[i] EXCEPT
            !.is_anomaly_season =
                OutOfBand(d[i].temperature, d[i].season_mean, d[i].season_std, z_threshold),
            !.is_anomaly_rolling =
                IF use_rolling
                THEN OutOfBand(d[i].temperature, d[i].rolling_mean, d[i].rolling_std,
                               z_threshold)
                ELSE FALSE]]

prepare_features(d, window_days) ==
    LET with_rolling == add_rolling_stats(d, window_days)
        with_season == add_season_stats(with_rolling)
    IN  mark_anomalies(with_season, DefaultZ, TRUE)

-----------------------------------------------------------------------------
(* current_season_mean_std, is_temp_normal *)

\* a lookup that selects on the city alone
current_season_mean_std_cityOnly(d, city, season) ==
    LET subset == Pick(d, {i \in 1..Len(d) : d[i].city = city}, 1)
    IN  IF subset = <<>> THEN <<NaN, NaN>>
        ELSE <<subset[1].season_mean, subset[1].season_std>>

current_season_mean_std(d, city, season) ==
    LET subset == Pick(d, {i \in 1..Len(d) : d[i].city = city /\ d[i].season = season}, 1)
    IN  IF subset = <<>> THEN <<NaN, NaN>>
        ELSE <<subset[1].season_mean, subset[1].season_std>>

\* the band test without the std == 0 case
is_temp_normal_noZeroStd(temp, mean, std, z_threshold) ==
    IF IsNaN(mean) \/ IsNaN(std) THEN TRUE
    ELSE LowerLe(temp, mean, std, z_threshold) /\ LeUpper(temp, mean, std, z_threshold)

is_temp_normal(temp, mean, std, z_threshold) ==
    IF IsNaN(mean) \/ IsNaN(std) \/ std.num = 0 THEN TRUE
    ELSE LowerLe(temp, mean, std, z_threshold) /\ LeUpper(temp, mean, std, z_threshold)

-----------------------------------------------------------------------------
(* Inputs *)

Temps == 0..MaxTemp

Windows == (1..MaxWindow) \cup {DefaultWindow}

ZThresholds == 0..MaxZ

\* the first day of the dates of the pipeline's inputs: 27 February, so that
\* MaxDay consecutive days cross from winter into spring
FirstDay == MonthStart(2) + 27

AllDates == {DateCell(m, d) : m \in 1..12, d \in 1..31}

Dates ==
    {c \in AllDates : c.d <= DaysInMonth[c.m]
                      /\ to_datetime(c) \in FirstDay..(FirstDay + MaxDay - 1)}

\* one date in the middle of every month
LoadDates == {DateCell(m, 15) : m \in 1..12}

CsvRow(city, ts, temp, season) ==
    [city |-> city, timestamp |-> ts, temperature |-> temp, season |-> season]

SeqsUpTo(S, lo, hi) == UNION {[1..n -> S] : n \in lo..hi}

\* well-formed sources without a season column
PlainRows == {CsvRow(c, t, NumCell(v), NoSeason) : c \in Cities, t \in Dates, v \in Temps}

\* well-formed sources with a season column: a cell holds the season of its
\* date or is empty
SeasonRows ==
    PlainRows \cup
    {CsvRow(c, t, NumCell(v), season_from_timestamp(to_datetime(t))) :
        c \in Cities, t \in Dates, v \in Temps}

AllCols == RequiredCols \cup {"season"}

\* the well-formed sources of at most n rows
Csvs(n) ==
    {[cols |-> RequiredCols, rows |-> r] : r \in SeqsUpTo(PlainRows, 1, n)}
    \cup {[cols |-> AllCols, rows |-> r] : r \in SeqsUpTo(SeasonRows, 1, n)}

\* sources of any shape: columns may be absent, cells may be unparseable
AnyRows(cs) ==
    {CsvRow(c, t, v, s) :
        c \in IF "city" \in cs THEN {"A"} ELSE {""},
        t \in IF "timestamp" \in cs THEN LoadDates \cup {BadDate} ELSE {BadDate},
        v \in IF "temperature" \in cs THEN {NumCell(0), BadNum} ELSE {BadNum},
        s \in IF "season" \in cs THEN {"winter", NoSeason} ELSE {NoSeason}}

\* the sources of any shape of at most n rows
AnyCsvs(n) ==
    UNION {{[cols |-> cs, rows |-> r] : r \in SeqsUpTo(AnyRows(cs), 0, n)} :
             cs \in SUBSET AllCols}

QueryTemps == (0 - 1)..(MaxTemp + 1)

NoArgs == [window_days |-> 0, z_threshold |-> 0, use_rolling |-> FALSE]

NoQuery ==
    [kind |-> "none", city |-> "", season |-> "", temp |-> 0, z |-> 0,
     mean |-> NaN, std |-> NaN, status |-> ""]

\* no request made
NoNet ==
    [explicit |-> "", env |-> "", use_async |-> FALSE, outcome |-> "none",
     status |-> 0, ct_json |-> FALSE, cod |-> "none", temp |-> 0]

\* no reading fetched
NoWeather ==
    [result |-> "none", kind |-> "", status |-> 0, text |-> "", temp |-> 0,
     banner |-> ""]

-----------------------------------------------------------------------------
(* Operations *)

Start(sources) ==
    /\ pc = "start"
    /\ csv \in sources
    /\ df = <<>>
    /\ cols = {}
    /\ dtype = "none"
    /\ err = "none"
    /\ input = <<>>
    /\ args = NoArgs
    /\ query = NoQuery
    /\ net = NoNet
    /\ weather = NoWeather

\* df = load_data(uploaded)
Load ==
    /\ pc = "start"
    /\ LET r == load_data(csv)
       IN  /\ df' = r.rows
           /\ cols' = r.cols
           /\ dtype' = r.dtype
           /\ err' = IF r.status = "ok" THEN "none" ELSE r.status
           /\ pc' = IF r.status = "ok" THEN "loaded" ELSE "failed"
    /\ UNCHANGED <<csv, input, args, query, net, weather>>

\* df = add_rolling_stats(df, window_days)
AddRollingStats ==
    /\ pc = "loaded"
    /\ \E w \in Windows :
        /\ args' = [args EXCEPT !.window_days = w]
        /\ df' = add_rolling_stats(df, w)
    /\ input' = df
    /\ cols' = cols \cup {"rolling_mean", "rolling_std"}
    /\ pc' = "rolled"
    /\ UNCHANGED <<csv, dtype, err, query, net, weather>>

\* df = add_season_stats(df), on a loaded frame or on one with rolling columns
AddSeasonStats ==
    /\ pc \in {"loaded", "rolled"}
    /\ df' = add_season_stats(df)
    /\ input' = df
    /\ cols' = cols \cup {"season_mean", "season_std"}
    /\ pc' = "seasoned"
    /\ UNCHANGED <<csv, dtype, err, args, query, net, weather>>

\* df = mark_anomalies(df, z_threshold, use_rolling); df["rolling_mean"] raises
\* KeyError on a frame without the rolling columns
MarkAnomalies ==
    /\ pc = "seasoned"
    /\ \E z \in ZThresholds, u \in BOOLEAN :
        /\ args' = [args EXCEPT !.z_threshold = z, !.use_rolling = u]
        /\ IF u /\ "rolling_mean" \notin cols
           THEN /\ err' = "KeyError"
                /\ pc' = "failed"
                /\ UNCHANGED <<df, cols>>
           ELSE /\ df' = mark_anomalies(df, z, u)
                /\ cols' = cols \cup {"is_anomaly_season", "is_anomaly_rolling"}
                /\ err' = err
                /\ pc' = "marked"
    /\ input' = df
    /\ UNCHANGED <<csv, dtype, query, net, weather>>

\* df_features = prepare_features(df)
PrepareFeatures ==
    /\ pc = "loaded"
    /\ df' = prepare_features(df, DefaultWindow)
    /\ input' = df
    /\ args' = [window_days |-> DefaultWindow, z_threshold |-> DefaultZ, use_rolling |-> TRUE]
    /\ cols' = cols \cup {"rolling_mean", "rolling_std", "season_mean", "season_std",
                          "is_anomaly_season", "is_anomaly_rolling"}
    /\ pc' = "features"
    /\ UNCHANGED <<csv, dtype, err, query, net, weather>>

\* mean, std = current_season_mean_std(df_features, city, season)
CurrentSeasonMeanStd ==
    /\ pc = "features"
    /\ \E city \in Cities, season \in Seasons :
        LET ms == current_season_mean_std(df, city, season)
        IN  query' = [NoQuery EXCEPT !.kind = "lookup", !.city = city, !.season = season,
                                     !.mean = ms[1], !.std = ms[2]]
    /\ pc' = "answered"
    /\ UNCHANGED <<csv, df, cols, dtype, err, input, args, net, weather>>

\* the handler of the weather button, from the fetched temperature on: the
\* city is one of the frame's cities, the season that of the current date
UpdateWeather ==
    /\ pc = "features"
    /\ \E i \in 1..Len(df), season \in Seasons, temp \in QueryTemps :
        LET ms == current_season_mean_std(df, df[i].city, season)
        IN  query' = [kind |-> "weather", city |-> df[i].city, season |-> season,
                      temp |-> temp, z |-> DefaultZ, mean |-> ms[1], std |-> ms[2],
                      status |-> IF IsNaN(ms[1]) THEN "no data"
                                 ELSE IF is_temp_normal(temp, ms[1], ms[2], DefaultZ)
                                      THEN "normal" ELSE "anomaly"]
    /\ pc' = "answered"
    /\ UNCHANGED <<csv, df, cols, dtype, err, input, args, net, weather>>

-----------------------------------------------------------------------------
(* Specifications *)

\* the stages of the pipeline, called one by one on a loaded source
Init == Start(Csvs(MaxRows))

Next == Load \/ AddRollingStats \/ AddSeasonStats \/ MarkAnomalies

Spec == Init /\ [][Next]_vars

\* the loader on sources of any shape
InitLoad == Start(AnyCsvs(MaxLoadRows))

NextLoad == Load

SpecLoad == InitLoad /\ [][NextLoad]_vars

\* app.main: load, prepare_features, then the seasonal baseline of a reading
InitQuery == Start(Csvs(MaxRows))

NextQuery == Load \/ PrepareFeatures \/ CurrentSeasonMeanStd \/ UpdateWeather

SpecQuery == InitQuery /\ [][NextQuery]_vars

\* is_temp_normal on arguments of any kind
Means == {NaN} \cup {Rat(n, d) : n \in (0 - MaxStat)..MaxStat, d \in 1..MaxStat}

\* the variances of the standard deviations passed in
Stds == {NaN} \cup {Rat(n, d) : n \in 0..MaxStat, d \in 1..MaxStat}

InitNormal ==
    /\ pc = "call"
    /\ csv = [cols |-> {}, rows |-> <<>>]
    /\ df = <<>>
    /\ cols = {}
    /\ dtype = "none"
    /\ err = "none"
    /\ input = <<>>
    /\ args = NoArgs
    /\ net = NoNet
    /\ weather = NoWeather
    /\ \E temp \in QueryTemps, mean \in Means, std \in Stds, z \in ZThresholds :
        query = [NoQuery EXCEPT !.kind = "normal", !.temp = temp, !.mean = mean,
                                !.std = std, !.z = z]

\* normal = is_temp_normal(temp, mean, std, z_threshold)
IsTempNormal ==
    /\ pc = "call"
    /\ query' = [query EXCEPT !.status =
                    IF is_temp_normal(query.temp, query.mean, query.std, query.z)
                    THEN "normal" ELSE "anomaly"]
    /\ pc' = "returned"
    /\ UNCHANGED <<csv, df, cols, dtype, err, input, args, net, weather>>

NextNormal == IsTempNormal

SpecNormal == InitNormal /\ [][NextNormal]_vars

-----------------------------------------------------------------------------
(* weather_api: the current reading of a city *)

\* the HTTP statuses the service answers with
Statuses == {200, 401, 404, 500}

\* the "cod" member of the body of an error response: the number 401, the
\* strings "401" and "404", or no such member
Cods == {"int401", "str401", "str404", "none"}

ApiKeys == {"", "key"}

\* what the network does with the request: it times out, it fails to
\* connect, or it answers; an answer 200 carries a JSON reading
NetOutcomes ==
    {[NoNet EXCEPT !.outcome = o] : o \in {"timeout", "transport"}}
    \cup {[NoNet EXCEPT !.outcome = "response", !.status = 200,
                        !.ct_json = TRUE, !.temp = t] : t \in QueryTemps}
    \cup {[NoNet EXCEPT !.outcome = "response", !.status = s,
                        !.ct_json = j, !.cod = c] :
            s \in Statuses \ {200}, j \in BOOLEAN, c \in Cods}

\* explicit or os.getenv("OWM_API_KEY", ""); "" is the missing key
get_api_key(explicit, env) == IF explicit # "" THEN explicit ELSE env

\* a WeatherError: the fixed part of its message, the status code and the
\* text interpolated into it
WeatherError(kind, status, text) ==
    [NoWeather EXCEPT !.result = "WeatherError", !.kind = kind,
                      !.status = status, !.text = text]

Reading(temp) == [NoWeather EXCEPT !.result = "ok", !.temp = temp]

\* error_data.get('cod') of the parsed body of the synchronous path: the body
\* is parsed only under a JSON content type, {} otherwise
SyncCod(n) == IF n.ct_json THEN n.cod ELSE "none"

fetch_current_weather(explicit, env, n) ==
    IF get_api_key(explicit, env) = ""
    THEN WeatherError("OpenWeatherMap API key is missing.", 0, "")
    ELSE IF n.outcome = "timeout"
    THEN WeatherError("Request failed", 0, "Timeout")
    ELSE IF n.outcome = "transport"
    THEN WeatherError("Request failed", 0, "ConnectionError")
    ELSE IF n.status # 200
    THEN IF n.status = 401 /\ SyncCod(n) = "int401"
         THEN WeatherError("Invalid API key", 0, "message")
         ELSE WeatherError("API error", n.status, n.cod)
    ELSE Reading(n.temp)

\* what the try block around resp.json() of the asynchronous path raises
AsyncTry(n) ==
    IF ~n.ct_json THEN "ContentTypeError"
    ELSE IF n.cod = "int401" THEN "WeatherError"
    ELSE "none"

\* what leaves that try statement: its bare except clause passes on anything
AsyncExcept(raised) == "none"

fetch_current_weather_async(explicit, env, n) ==
    IF get_api_key(explicit, env) = ""
    THEN WeatherError("OpenWeatherMap API key is missing.", 0, "")
    ELSE IF n.outcome = "timeout"
    THEN WeatherError("Request timeout", 0, "")
    ELSE IF n.outcome = "transport"
    THEN WeatherError("Request failed", 0, "ClientError")
    ELSE IF n.status # 200
    THEN IF n.status = 401 /\ AsyncExcept(AsyncTry(n)) = "WeatherError"
         THEN WeatherError("Invalid API key", 0, "message")
         ELSE WeatherError("API error", n.status, n.cod)
    ELSE Reading(n.temp)

\* "401" in error_msg: the status code or the body text of the message
Contains401(w) == w.status = 401 \/ w.text \in {"int401", "str401"}

\* the banner of the handler of app.main for a WeatherError
ErrorBanner(w) ==
    IF Contains401(w) \/ w.kind = "Invalid API key"
    THEN "invalid key" ELSE "api error"

InitFetch ==
    /\ pc = "request"
    /\ csv = [cols |-> {}, rows |-> <<>>]
    /\ df = <<>>
    /\ cols = {}
    /\ dtype = "none"
    /\ err = "none"
    /\ input = <<>>
    /\ args = NoArgs
    /\ query = NoQuery
    /\ weather = NoWeather
    /\ \E n \in NetOutcomes, k \in ApiKeys, e \in ApiKeys, a \in BOOLEAN :
        net = [n EXCEPT !.explicit = k, !.env = e, !.use_async = a]

\* weather = fetch_current_weather(city, api_key)
FetchCurrentWeather ==
    /\ pc = "request"
    /\ ~net.use_async
    /\ weather' = fetch_current_weather(net.explicit, net.env, net)
    /\ pc' = IF weather'.result = "ok" THEN "fetched" ELSE "raised"
    /\ UNCHANGED <<csv, df, cols, dtype, err, input, args, query, net>>

\* weather = asyncio.run(fetch_current_weather_async(city, api_key))
FetchCurrentWeatherAsync ==
    /\ pc = "request"
    /\ net.use_async
    /\ weather' = fetch_current_weather_async(net.explicit, net.env, net)
    /\ pc' = IF weather'.result = "ok" THEN "fetched" ELSE "raised"
    /\ UNCHANGED <<csv, df, cols, dtype, err, input, args, query, net>>

\* except WeatherError as exc: st.error(...)
ShowError ==
    /\ pc = "raised"
    /\ weather' = [weather EXCEPT !.banner = ErrorBanner(weather)]
    /\ pc' = "shown"
    /\ UNCHANGED <<csv, df, cols, dtype, err, input, args, query, net>>

NextFetch == FetchCurrentWeather \/ FetchCurrentWeatherAsync \/ ShowError

SpecFetch == InitFetch /\ [][NextFetch]_vars

-----------------------------------------------------------------------------
(* Properties *)

Payload(r) == <<r.city, r.timestamp, r.temperature, r.season>>

Occurrences(s, v) == Cardinality({i \in 1..Len(s) : Payload(s[i]) = v})

RowsOfCity(s, c) == Pick(s, {i \in 1..Len(s) : s[i].city = c}, 1)

\* the number of rows of the city of row i up to row i
PosInCity(s, i) == Cardinality({j \in 1..i : s[j].city = s[i].city})

\* the temperatures of the last w rows of the city of row i, up to row i
LastOfCity(s, i, w) ==
    LET t == Column(RowsOfCity(s, s[i].city), "temperature")
        k == PosInCity(s, i)
    IN  SubSeq(t, IF k - w + 1 < 1 THEN 1 ELSE k - w + 1, k)

\* the temperatures of the rows of the city of row i, up to row i, that are
\* at most w - 1 days older than row i
TimeWindow(s, i, w) ==
    Column(Pick(s, {j \in 1..i : /\ s[j].city = s[i].city
                                 /\ s[j].timestamp >= s[i].timestamp - (w - 1)
                                 /\ s[j].timestamp <= s[i].timestamp}, 1),
           "temperature")

NotAfter(a, b) ==
    \/ CityOrd(a.city) < CityOrd(b.city)
    \/ a.city = b.city /\ a.timestamp <= b.timestamp

Sorted(s) == \A i \in 1..(Len(s) - 1) : NotAfter(s[i], s[i + 1])

\* C1: no window of add_rolling_stats mixes cities: every defined
\* rolling_mean / rolling_std is the statistic of observations of the row's own
\* city (the last window_days of them), and the rows of a city come out
\* exactly as when the rows of every other city are removed from the input.
C1_NoCrossCityLeakage ==
    pc = "rolled" =>
        /\ \A i \in 1..Len(df) :
            /\ df[i].rolling_mean \in {NaN, Mean(LastOfCity(df, i, args.window_days))}
            /\ df[i].rolling_std \in {NaN, Std(LastOfCity(df, i, args.window_days))}
        /\ \A c \in Cities :
            RowsOfCity(df, c) = add_rolling_stats(RowsOfCity(input, c), args.window_days)

\* two cities interleaved in the input, and a row of the first city whose
\* window of two holds a defined mean
C1_Witness ==
    /\ pc = "rolled"
    /\ args.window_days = 2
    /\ Len(input) = 3
    /\ input[1].city = "A" /\ input[2].city = "B" /\ input[3].city = "A"
    /\ input[1].timestamp < input[2].timestamp
    /\ input[2].timestamp < input[3].timestamp
    /\ input[1].temperature # input[2].temperature
    /\ ~IsNaN(df[2].rolling_mean)

\* C2: the window of a row is time-based: a defined rolling_mean / rolling_std
\* is the statistic of the observations of the row's city whose timestamp lies
\* in [timestamp - (window_days - 1) days, timestamp].
C2_TimeBasedWindow ==
    pc = "rolled" =>
        \A i \in 1..Len(df) :
            /\ ~IsNaN(df[i].rolling_mean) =>
                  df[i].rolling_mean = Mean(TimeWindow(df, i, args.window_days))
            /\ ~IsNaN(df[i].rolling_std) =>
                  df[i].rolling_std = Std(TimeWindow(df, i, args.window_days))

\* C3: warm-up: rolling_mean is defined from the first observation of a city,
\* and rolling_std is NaN only while the window holds fewer than two
\* observations.
C3_WarmUp ==
    pc = "rolled" =>
        \A i \in 1..Len(df) :
            /\ ~IsNaN(df[i].rolling_mean)
            /\ IsNaN(df[i].rolling_std) => Len(TimeWindow(df, i, args.window_days)) < 2

\* C4: add_season_stats keeps every row once and in order, and gives every
\* row the mean and the sample standard deviation of the temperatures of the
\* rows with its (city, season) pair.
C4_SeasonJoin ==
    pc = "seasoned" =>
        /\ Len(df) = Len(input)
        /\ \A i \in 1..Len(input) :
            LET temps == Column(Pick(input, {j \in 1..Len(input) :
                                               /\ input[j].city = input[i].city
                                               /\ input[j].season = input[i].season}, 1),
                                "temperature")
            IN  /\ i <= Len(df)
                /\ df[i] = [input[i] EXCEPT !.season_mean = Mean(temps),
                                            !.season_std = Std(temps)]

\* |temp - mean| > z * std, with both statistics defined
Exceeds(temp, mean, std, z) ==
    /\ ~IsNaN(mean)
    /\ ~IsNaN(std)
    /\ (temp * mean.den - mean.num) * (temp * mean.den - mean.num) * std.den
         > z * z * std.num * mean.den * mean.den

\* C5: mark_anomalies raises nothing and flags a row under a baseline exactly
\* when its temperature lies outside mean +- z_threshold * std; a row whose
\* mean or std is NaN is not flagged.
C5_NaNSafeFlags ==
    pc = "marked" =>
        /\ err = "none"
        /\ \A i \in 1..Len(df) :
            /\ df[i].is_anomaly_season =
                 Exceeds(df[i].temperature, df[i].season_mean, df[i].season_std,
                         args.z_threshold)
            /\ IsNaN(df[i].season_std) \/ IsNaN(df[i].season_mean)
                 => ~df[i].is_anomaly_season
            /\ args.use_rolling =>
                 /\ df[i].is_anomaly_rolling =
                      Exceeds(df[i].temperature, df[i].rolling_mean, df[i].rolling_std,
                              args.z_threshold)
                 /\ IsNaN(df[i].rolling_std) \/ IsNaN(df[i].rolling_mean)
                      => ~df[i].is_anomaly_rolling

\* a marked frame with a flagged row and with a row whose season_std is NaN
C5_Witness ==
    /\ pc = "marked"
    /\ args.use_rolling
    /\ \E i, j \in 1..Len(df) :
        /\ df[i].is_anomaly_season
        /\ IsNaN(df[j].season_std)
        /\ ~IsNaN(df[j].season_mean)
        /\ IsNaN(df[j].rolling_std)
        /\ ~df[j].is_anomaly_season

\* C6: is_temp_normal is true when mean is NaN, std is NaN or std is 0, and
\* otherwise exactly when mean - z*std <= temp <= mean + z*std.
C6_IsTempNormal ==
    pc = "returned" =>
        ((query.status = "normal") <=>
            \/ IsNaN(query.mean)
            \/ IsNaN(query.std)
            \/ query.std.num = 0
            \/ ~Exceeds(query.temp, query.mean, query.std, query.z))

\* std is 0 and the temperature is not the mean: normal all the same
C6_Witness ==
    /\ pc = "returned"
    /\ ~IsNaN(query.mean)
    /\ ~IsNaN(query.std)
    /\ query.std.num = 0
    /\ query.temp * query.mean.den # query.mean.num
    /\ query.status = "normal"

\* C7: current_season_mean_std is (NaN, NaN) when no row has the (city,
\* season) pair, and otherwise the season_mean and season_std stored on the
\* first row of the pair, which every row of the pair carries.
C7_Lookup ==
    (pc = "answered" /\ query.kind \in {"lookup", "weather"}) =>
        LET hits == {i \in 1..Len(df) : df[i].city = query.city /\ df[i].season = query.season}
        IN  IF hits = {}
            THEN IsNaN(query.mean) /\ IsNaN(query.std)
            ELSE \A i \in hits :
                    /\ query.mean = df[i].season_mean
                    /\ query.std = df[i].season_std

\* a lookup that finds its pair behind a first row of another season
C7_Witness ==
    /\ pc = "answered"
    /\ query.kind = "lookup"
    /\ Len(df) = 3
    /\ df[1].city = query.city
    /\ df[1].season \in Seasons
    /\ df[1].season # query.season
    /\ df[1].season_mean # query.mean
    /\ ~IsNaN(query.std)

\* a source the loader must refuse
Malformed(c) ==
    \/ RequiredCols \ c.cols # {}
    \/ \E i \in 1..Len(c.rows) :
        \/ c.rows[i].timestamp = BadDate
        \/ ~c.rows[i].temperature.numeric

\* C8: on a source that lacks a required column or holds an unparseable
\* timestamp or temperature, the loader fails and returns no frame.  (The
\* kind of the failure is left open here: the loader has no error kind of
\* its own, and what refutes the claim is the frame it returns.)
C8_MalformedInput ==
    (pc # "start" /\ Malformed(csv)) => (pc = "failed" /\ err # "none")

\* the season of a month: December to February winter, March to May spring,
\* June to August summer, September to November autumn
SeasonOfMonth(m) ==
    IF m \in {12, 1, 2} THEN "winter"
    ELSE IF m \in {3, 4, 5} THEN "spring"
    ELSE IF m \in {6, 7, 8} THEN "summer"
    ELSE "autumn"

\* C9: after load every row has a season, and a row whose source gave none
\* has the season of the month of its timestamp.
C9_SeasonPopulated ==
    pc = "loaded" =>
        \A i \in 1..Len(df) :
            /\ df[i].season \in Seasons
            /\ ("season" \notin csv.cols \/ csv.rows[i].season = NoSeason)
                 => df[i].season = SeasonOfMonth(csv.rows[i].timestamp.m)

\* C10: add_rolling_stats returns the rows of its input, each once and
\* unchanged, in ascending (city, timestamp) order, and the order holds on
\* through add_season_stats and mark_anomalies.
C10_SortedPermutation ==
    /\ pc = "rolled" =>
        /\ Len(df) = Len(input)
        /\ \A i \in 1..Len(input) :
            Occurrences(df, Payload(input[i])) = Occurrences(input, Payload(input[i]))
        /\ Sorted(df)
    /\ (pc \in {"seasoned", "marked"} /\ "rolling_mean" \in cols) => Sorted(df)

\* the pipeline has run to its end on an input that was not in order
C10_Witness ==
    /\ pc = "marked"
    /\ "rolling_mean" \in cols
    /\ Len(df) = 3
    /\ csv.rows[1].city = "B"
    /\ csv.rows[3].city = "A"
    /\ df[1].city = "A"
    /\ df[3].city = "B"

\* C11: mark_anomalies with use_rolling = false succeeds also on a frame
\* without rolling_mean / rolling_std, its output has the column
\* is_anomaly_rolling, false on every row, and is_anomaly_season is what the
\* call with use_rolling = true gives on the same frame.
C11_UseRollingFalse ==
    /\ (pc = "failed" /\ err = "KeyError") => args.use_rolling
    /\ (pc = "marked" /\ ~args.use_rolling) =>
        /\ err = "none"
        /\ {"is_anomaly_season", "is_anomaly_rolling"} \subseteq cols
        /\ Len(df) = Len(input)
        /\ \A i \in 1..Len(df) :
            /\ ~df[i].is_anomaly_rolling
            /\ df[i].is_anomaly_season =
                 Exceeds(df[i].temperature, df[i].season_mean, df[i].season_std,
                         args.z_threshold)
            /\ "rolling_mean" \in cols =>
                 df[i].is_anomaly_season =
                    mark_anomalies(input, args.z_threshold, TRUE)[i].is_anomaly_season

\* use_rolling = false on a frame that has rolling statistics which the
\* rolling rule would flag, and a row that the seasonal rule flags
C11_Witness ==
    /\ pc = "marked"
    /\ ~args.use_rolling
    /\ "rolling_mean" \in cols
    /\ \E i, j \in 1..Len(df) :
        /\ Exceeds(df[i].temperature, df[i].rolling_mean, df[i].rolling_std,
                   args.z_threshold)
        /\ ~df[i].is_anomaly_rolling
        /\ df[j].is_anomaly_season

\* the failure the network outcome n stands for
FailureOf(n) ==
    IF n.outcome = "timeout" THEN "timeout"
    ELSE IF n.outcome = "transport" THEN "transport"
    ELSE IF n.status = 401 THEN "unauthorized"
    ELSE IF n.status = 404 THEN "not-found"
    ELSE "other"

\* the error kind of a WeatherError: the fixed part of its message and the
\* status code in it
ErrorKind(w) == <<w.kind, w.status>>

\* the result of the path taken, for the key of the request and outcome n
Fetched(n) ==
    IF net.use_async
    THEN fetch_current_weather_async(net.explicit, net.env, n)
    ELSE fetch_current_weather(net.explicit, net.env, n)

\* the request carries a key and the fetch has raised its error
FetchFailed ==
    /\ pc \in {"raised", "shown"}
    /\ get_api_key(net.explicit, net.env) # ""

\* an answer 401 whose JSON body has cod = 401
InvalidKeyResponse ==
    /\ net.outcome = "response"
    /\ net.status = 401
    /\ net.ct_json
    /\ net.cod = "int401"

\* C12: on both paths, a request that fails as unauthorized, not-found,
\* timeout or transport failure raises an error whose kind no other of these
\* failures raises, and an answer 401 with an invalid-key body raises the
\* "Invalid API key" error.
C12_ErrorKinds ==
    FetchFailed =>
        /\ InvalidKeyResponse => weather.kind = "Invalid API key"
        /\ FailureOf(net) # "other" =>
            \A n \in NetOutcomes :
                ErrorKind(Fetched(n)) = ErrorKind(weather) =>
                    FailureOf(n) = FailureOf(net)

\* the parts of C12 by path: they locate what fails
C12_SyncInvalidKey ==
    (FetchFailed /\ ~net.use_async /\ InvalidKeyResponse) =>
        weather.kind = "Invalid API key"

C12_AsyncInvalidKey ==
    (FetchFailed /\ net.use_async /\ InvalidKeyResponse) =>
        weather.kind = "Invalid API key"

C12_SyncKindsDiffer ==
    (FetchFailed /\ ~net.use_async /\ FailureOf(net) # "other") =>
        \A n \in NetOutcomes :
            ErrorKind(Fetched(n)) = ErrorKind(weather) =>
                FailureOf(n) = FailureOf(net)

C12_AsyncKindsDiffer ==
    (FetchFailed /\ net.use_async /\ FailureOf(net) # "other") =>
        \A n \in NetOutcomes :
            ErrorKind(Fetched(n)) = ErrorKind(weather) =>
                FailureOf(n) = FailureOf(net)

\* both paths report an answer 401 under the same banner of the page
C12_SameBanner ==
    (pc = "shown" /\ FetchFailed /\ net.status = 401) =>
        weather.banner = "invalid key"

====
